---- MODULE Spec2Model ----
(***************************************************************************)
(* Model of langgraph_runtime_inmem_open: the in-memory namespaced store   *)
(* (store.py, InMemoryStore) and the thread-keyed checkpoint log           *)
(* (checkpoint.py, MemorySaver), their disk-backed subclasses with the     *)
(* file each one mirrors its state to, the CheckpointContext handles and   *)
(* the coroutines that call AsyncMemorySaver.                              *)
(*                                                                         *)
(* Representation                                                          *)
(*   str            a sequence of one-character strings ("a:b" is          *)
(*                  <<"a", ":", "b">>), so that join / startswith act on   *)
(*                  characters as in Python                                *)
(*   tuple of str   a sequence of such strings                             *)
(*   Optional[x]    <<>> for None, <<x>> for a value x                     *)
(*   dict           a sequence of [key, val] entries in insertion order    *)
(*                  (Python dicts iterate in insertion order; assigning to *)
(*                  an existing key keeps its position)                    *)
(*   record value   a function from field names to field values           *)
(***************************************************************************)
EXTENDS Integers, Sequences, FiniteSets, TLC

VARIABLES
    data,         \* InMemoryStore._data      : dict composite key -> value
    namespaces,   \* InMemoryStore._namespaces: set of namespace tuples
    ttl_data,     \* InMemoryStore._ttl_data  : dict composite key -> expiry
    now,          \* the value time.time() returns
    hist,         \* the mutating calls made so far on the store, in order
    ret,          \* the last call made on the store, with what it returned
    checkpoints,  \* MemorySaver._checkpoints : dict thread_id -> checkpoint
    metadata,     \* MemorySaver._metadata    : dict thread_id -> metadata
    chist,        \* the mutating calls made so far on the saver, in order
    cret,         \* the last call made on the saver, with what it returned
    persist_path, \* DiskBackedInMemStore.persist_path (None for InMemoryStore)
    file,         \* the file at the store's persist_path
    alive,        \* a store instance has been constructed
    saver_persist_path, \* DiskBackedMemorySaver.persist_path
    saver_file,   \* the file at the saver's persist_path
    saver_alive,  \* a saver instance has been constructed
    handles,      \* the CheckpointContext objects in use, each by its thread_id
    tasks,        \* the coroutines that call the AsyncMemorySaver
    peer_store,   \* a second DiskBackedInMemStore on the same persist_path
    peer_saver    \* a second DiskBackedMemorySaver on the same persist_path

storeDisk == <<persist_path, file, alive>>
saverDisk == <<saver_persist_path, saver_file, saver_alive>>
saverClients == <<handles, tasks>>
peers == <<peer_store, peer_saver>>
vars == <<data, namespaces, ttl_data, now, hist, ret,
          checkpoints, metadata, chist, cret, storeDisk, saverDisk,
          saverClients, peers>>
storeVars == <<data, namespaces, ttl_data, hist, ret, storeDisk>>
saverVars == <<checkpoints, metadata, chist, cret, saverDisk, saverClients>>

----------------------------------------------------------------------------
(* Bounds *)

MaxOps == 2        \* mutating calls on the store in one behaviour
MaxListOps == 3    \* the same, where only the namespace of a call varies
MaxSaverOps == 3   \* mutating calls on the saver in one behaviour
MaxTime == 1       \* the clock runs over 0 .. MaxTime
MaxMirrorOps == 2  \* mutating calls on a disk-backed instance in one behaviour
MaxHandleOps == 2  \* checkpoints saved in one behaviour with handles
MaxAsyncOps == 3   \* calls made by all coroutines in one behaviour
MaxReadOps == 2    \* mutating calls in one behaviour that is about reads
MaxTtlOps == 3     \* mutating calls in one behaviour that is about expiry
MaxExpiryOps == 2  \* mutating calls in one behaviour with expired records
MaxPageOps == 3    \* records put in one behaviour that is about pages
MaxPeerOps == 2    \* mutating calls on the first of two instances in one behaviour
MaxCleanOps == 2   \* mutating calls in one behaviour on names without ':'

----------------------------------------------------------------------------
(* Python values *)

None == <<>>
Some(x) == <<x>>

\* str literals used as inputs
s_a == <<"a">>
s_b == <<"b">>
s_a_b == <<"a", ":", "b">>      \* "a:b"
s_k == <<"k">>
s_j == <<"j">>
s_ab == <<"a", "b">>            \* "ab"

\* namespaces passed to put / get / delete and used as search prefixes
NsSet == { <<>>, <<s_a>>, <<s_a, s_b>>, <<s_a_b>> }
\* leaf keys
KeySet == { s_k, s_j }
\* record values (dicts field -> value)
ValueSet == { [type |-> "x"], [type |-> "y", name |-> "Ann"] }
\* ttl arguments of put (minutes)
TtlSet == { None, Some(1) }
\* filter arguments of search
FilterSet == { None,
               Some([f \in {} |-> "x"]),
               Some([type |-> "x"]),
               Some([name |-> "Ann"]),
               Some([type |-> "y", name |-> "Ann"]),
               Some([type |-> "y", name |-> "Bo"]) }
\* prefix / suffix arguments of list_namespaces
PrefixSet == { None, Some(<<>>), Some(<<s_a>>) }
SuffixSet == { None, Some(<<>>), Some(<<s_b>>), Some(<<s_a, s_b>>) }
DepthSet == { None, Some(1) }

----------------------------------------------------------------------------
(* dict, as an insertion-ordered sequence of entries *)

\* the positions of d that hold key k
DictPos(d, k) == { i \in 1..Len(d) : d[i].key = k }

\* k in d
DictHas(d, k) == DictPos(d, k) # {}

\* d.get(k): the value, or None
DictGet(d, k) ==
    IF DictHas(d, k)
    THEN Some(d[CHOOSE i \in DictPos(d, k) : \A j \in DictPos(d, k) : i <= j].val)
    ELSE None

\* a d[k] = v that appends a new entry also when the key is present
DictSet_append(d, k, v) == Append(d, [key |-> k, val |-> v])

\* d[k] = v: replaces the value in place, or appends a new entry
DictSet(d, k, v) ==
    IF DictHas(d, k)
    THEN [i \in 1..Len(d) |-> IF d[i].key = k THEN [key |-> k, val |-> v] ELSE d[i]]
    ELSE Append(d, [key |-> k, val |-> v])

\* d without the entries of key k
DictRemove(d, k) == SelectSeq(d, LAMBDA e : e.key # k)

\* d.pop(k): raises KeyError when the key is absent
DictPop_strict(d, k) == [dict |-> DictRemove(d, k), exc |-> ~DictHas(d, k)]

\* d.pop(k, None): never raises
DictPop(d, k) == [dict |-> DictRemove(d, k), exc |-> FALSE]

DictKeys(d) == [i \in 1..Len(d) |-> d[i].key]
DictValues(d) == [i \in 1..Len(d) |-> d[i].val]

----------------------------------------------------------------------------
(* InMemoryStore *)

\* ":".join(namespace)
RECURSIVE Join(_)
Join(namespace) ==
    IF Len(namespace) = 0 THEN <<>>
    ELSE IF Len(namespace) = 1 THEN namespace[1]
    ELSE namespace[1] \o <<":">> \o Join(Tail(namespace))

\* f"{':'.join(namespace)}:{key}"
make_key(namespace, key) == Join(namespace) \o <<":">> \o key

\* s.startswith(p)
startswith(s, p) == Len(p) <= Len(s) /\ SubSeq(s, 1, Len(p)) = p

\* a slice that takes the limit for the end: seq[a:b-a]
Slice_to_limit(seq, a, b) ==
    LET e == IF b - a < Len(seq) THEN b - a ELSE Len(seq)
    IN  IF a >= e THEN <<>> ELSE SubSeq(seq, a + 1, e)

\* seq[a:b] for 0 <= a, 0 <= b
Slice(seq, a, b) ==
    LET hi == IF b < Len(seq) THEN b ELSE Len(seq)
    IN  IF a >= hi THEN <<>> ELSE SubSeq(seq, a + 1, hi)

\* the store's three fields as one value
StoreState == [data |-> data, namespaces |-> namespaces, ttl_data |-> ttl_data]

\* InMemoryStore.get
InMemoryStore_get(st, namespace, key) ==
    LET ns_key == make_key(namespace, key)
    IN  DictGet(st.data, ns_key)

\* a put that clears the expiry entry when it is given no ttl
InMemoryStore_put_clears_ttl(st, namespace, key, value, ttl, t) ==
    LET ns_key == make_key(namespace, key)
    IN  [data |-> DictSet(st.data, ns_key, value),
         namespaces |-> st.namespaces \cup {namespace},
         ttl_data |-> IF ttl # None
                      THEN DictSet(st.ttl_data, ns_key, t + ttl[1] * 60)
                      ELSE DictRemove(st.ttl_data, ns_key)]

\* InMemoryStore.put: the state after the call made at time t
InMemoryStore_put(st, namespace, key, value, ttl, t) ==
    LET ns_key == make_key(namespace, key)
    IN  [data |-> DictSet(st.data, ns_key, value),
         namespaces |-> st.namespaces \cup {namespace},
         ttl_data |-> IF ttl # None
                      THEN DictSet(st.ttl_data, ns_key, t + ttl[1] * 60)
                      ELSE st.ttl_data]

\* a delete that also forgets the namespace
InMemoryStore_delete_dropns(st, namespace, key) ==
    LET ns_key == make_key(namespace, key)
    IN  [state |-> [data |-> DictRemove(st.data, ns_key),
                    namespaces |-> st.namespaces \ {namespace},
                    ttl_data |-> DictRemove(st.ttl_data, ns_key)],
         exc |-> FALSE]

\* InMemoryStore.delete: the state after the call and whether it raised
InMemoryStore_delete(st, namespace, key) ==
    LET ns_key == make_key(namespace, key)
        p1 == DictPop(st.data, ns_key)
        p2 == DictPop(st.ttl_data, ns_key)
    IN  IF p1.exc
        THEN [state |-> st, exc |-> TRUE]
        ELSE IF p2.exc
        THEN [state |-> [st EXCEPT !.data = p1.dict], exc |-> TRUE]
        ELSE [state |-> [st EXCEPT !.data = p1.dict, !.ttl_data = p2.dict],
              exc |-> FALSE]

\* a loop that tests only that the field is present
RECURSIVE matches_loop_presence(_, _, _)
matches_loop_presence(value, filter_dict, todo) ==
    IF todo = {} THEN TRUE
    ELSE LET filter_key == CHOOSE f \in todo : TRUE
         IN  IF filter_key \notin DOMAIN value
             THEN FALSE
             ELSE matches_loop_presence(value, filter_dict, todo \ {filter_key})

\* InMemoryStore._matches_filter: the loop over filter_dict.items()
RECURSIVE matches_loop(_, _, _)
matches_loop(value, filter_dict, todo) ==
    IF todo = {} THEN TRUE
    ELSE LET filter_key == CHOOSE f \in todo : TRUE
         IN  IF filter_key \notin DOMAIN value
                \/ value[filter_key] # filter_dict[filter_key]
             THEN FALSE
             ELSE matches_loop(value, filter_dict, todo \ {filter_key})

matches_filter(value, filter_dict) ==
    matches_loop(value, filter_dict, DOMAIN filter_dict)

\* the condition of search on one entry
search_keeps(e, prefix_str, filter) ==
    /\ startswith(e.key, prefix_str)
    /\ (filter = None \/ matches_filter(e.val, filter[1]))

\* a search that tests the joined prefix without the delimiter after it
search_entries_bare_prefix(st, namespace_prefix, filter) ==
    LET prefix_str == Join(namespace_prefix)
    IN  SelectSeq(st.data, LAMBDA e : search_keeps(e, prefix_str, filter))

\* InMemoryStore.search, before the slice: the entries kept by the loop
search_entries(st, namespace_prefix, filter) ==
    LET prefix_str == make_key(namespace_prefix, <<>>)
    IN  SelectSeq(st.data, LAMBDA e : search_keeps(e, prefix_str, filter))

\* InMemoryStore.search
InMemoryStore_search(st, namespace_prefix, filter, limit, offset) ==
    Slice(DictValues(search_entries(st, namespace_prefix, filter)),
          offset, offset + limit)

\* ns[:n] for n >= 0
Head_n(ns, n) == Slice(ns, 0, n)

\* ns[-n:] for n >= 0: -0 is 0, so ns[-0:] is the whole of ns
Tail_n(ns, n) ==
    IF n = 0 \/ n >= Len(ns) THEN ns ELSE SubSeq(ns, Len(ns) - n + 1, Len(ns))

\* the three filters of list_namespaces on one namespace
ns_keeps(ns, prefix, suffix, max_depth) ==
    /\ (prefix # None => Head_n(ns, Len(prefix[1])) = prefix[1])
    /\ (suffix # None => Tail_n(ns, Len(suffix[1])) = suffix[1])
    /\ (max_depth # None => Len(ns) <= max_depth[1])

\* the sequences that enumerate the set S once each: list(S) is one of them
Orderings(S) ==
    { o \in [1..Cardinality(S) -> S] : \A x \in S : \E i \in DOMAIN o : o[i] = x }

\* InMemoryStore.list_namespaces, given the order in which the set iterates
InMemoryStore_list_namespaces(order, prefix, suffix, max_depth, limit, offset) ==
    Slice(SelectSeq(order, LAMBDA ns : ns_keeps(ns, prefix, suffix, max_depth)),
          offset, offset + limit)

----------------------------------------------------------------------------
(* The store's operations as actions *)

NoCall == [op |-> "none"]

\* no file exists at the path
NoFile == [kind |-> "absent"]

SetStore(st) ==
    /\ data' = st.data
    /\ namespaces' = st.namespaces
    /\ ttl_data' = st.ttl_data

Put(namespace, key, value, ttl) ==
    /\ SetStore(InMemoryStore_put(StoreState, namespace, key, value, ttl, now))
    /\ hist' = Append(hist, [op |-> "put", ns |-> namespace, key |-> key,
                             value |-> value, ttl |-> ttl, at |-> now])
    /\ ret' = [op |-> "put", ns |-> namespace, key |-> key, exc |-> FALSE]
    /\ UNCHANGED <<now, storeDisk, saverVars, peers>>

Delete(namespace, key) ==
    /\ LET r == InMemoryStore_delete(StoreState, namespace, key)
       IN  /\ SetStore(r.state)
           /\ ret' = [op |-> "delete", ns |-> namespace, key |-> key,
                      exc |-> r.exc]
    /\ hist' = Append(hist, [op |-> "delete", ns |-> namespace, key |-> key])
    /\ UNCHANGED <<now, storeDisk, saverVars, peers>>

Get(namespace, key) ==
    /\ ret' = [op |-> "get", ns |-> namespace, key |-> key,
               val |-> InMemoryStore_get(StoreState, namespace, key)]
    /\ UNCHANGED <<data, namespaces, ttl_data, hist, now, storeDisk, saverVars, peers>>

Search(namespace_prefix, filter, limit, offset) ==
    /\ ret' = [op |-> "search", ns |-> namespace_prefix, filter |-> filter,
               limit |-> limit, offset |-> offset,
               val |-> InMemoryStore_search(StoreState, namespace_prefix,
                                            filter, limit, offset)]
    /\ UNCHANGED <<data, namespaces, ttl_data, hist, now, storeDisk, saverVars, peers>>

ListNamespaces(prefix, suffix, max_depth, limit, offset) ==
    /\ \E order \in Orderings(namespaces) :
           ret' = [op |-> "list_namespaces", prefix |-> prefix,
                   suffix |-> suffix, max_depth |-> max_depth,
                   limit |-> limit, offset |-> offset,
                   val |-> InMemoryStore_list_namespaces(
                               order, prefix, suffix, max_depth, limit, offset)]
    /\ UNCHANGED <<data, namespaces, ttl_data, hist, now, storeDisk, saverVars, peers>>

----------------------------------------------------------------------------
(* MemorySaver *)

\* thread identifiers
ThreadSet == { "threadA", "default" }
\* checkpoints (dicts field -> int)
CheckpointSet == { [step |-> 1], [step |-> 2, done |-> 10] }

\* len(str(n)) for an int n >= 0
RECURSIVE IntStrLen(_)
IntStrLen(n) == IF n < 10 THEN 1 ELSE 1 + IntStrLen(n \div 10)

\* the summed length of "'key': value" over the fields in todo
RECURSIVE ItemsStrLen(_, _)
ItemsStrLen(checkpoint, todo) ==
    IF todo = {} THEN 0
    ELSE LET f == CHOOSE x \in todo : TRUE
         IN  (Len(f) + 2) + 2 + IntStrLen(checkpoint[f])
             + ItemsStrLen(checkpoint, todo \ {f})

\* len(str(checkpoint)): "{" items joined by ", " "}"
StrLen(checkpoint) ==
    LET n == Cardinality(DOMAIN checkpoint)
    IN  2 + ItemsStrLen(checkpoint, DOMAIN checkpoint)
          + (IF n > 1 THEN 2 * (n - 1) ELSE 0)

\* the saver's two fields as one value
SaverState == [checkpoints |-> checkpoints, metadata |-> metadata]

\* MemorySaver.get
MemorySaver_get(sv, thread_id) == DictGet(sv.checkpoints, thread_id)

\* a put that keeps the checkpoint a thread already has
MemorySaver_put_keep(sv, thread_id, checkpoint, t) ==
    [checkpoints |-> IF DictHas(sv.checkpoints, thread_id) THEN sv.checkpoints
                     ELSE Append(sv.checkpoints,
                                 [key |-> thread_id, val |-> checkpoint]),
     metadata |-> Append(DictRemove(sv.metadata, thread_id),
                         [key |-> thread_id,
                          val |-> [timestamp |-> t, size |-> 0]])]

\* a put that leaves the metadata a thread already has
MemorySaver_put_stale_metadata(sv, thread_id, checkpoint, t) ==
    [checkpoints |-> DictSet(sv.checkpoints, thread_id, checkpoint),
     metadata |-> IF DictHas(sv.metadata, thread_id) THEN sv.metadata
                  ELSE DictSet(sv.metadata, thread_id,
                               [timestamp |-> t, size |-> StrLen(checkpoint)])]

\* MemorySaver.put: the state after the call made at time t
MemorySaver_put(sv, thread_id, checkpoint, t) ==
    [checkpoints |-> DictSet(sv.checkpoints, thread_id, checkpoint),
     metadata |-> DictSet(sv.metadata, thread_id,
                          [timestamp |-> t, size |-> StrLen(checkpoint)])]

\* a delete that leaves the metadata of the thread
MemorySaver_delete_checkpoint_only(sv, thread_id) ==
    [checkpoints |-> DictPop(sv.checkpoints, thread_id).dict,
     metadata |-> sv.metadata]

\* MemorySaver.delete
MemorySaver_delete(sv, thread_id) ==
    [checkpoints |-> DictPop(sv.checkpoints, thread_id).dict,
     metadata |-> DictPop(sv.metadata, thread_id).dict]

\* MemorySaver.list_threads
MemorySaver_list_threads(sv) == DictKeys(sv.checkpoints)

\* MemorySaver.get_metadata
MemorySaver_get_metadata(sv, thread_id) == DictGet(sv.metadata, thread_id)

\* a clear_all that clears the metadata only
MemorySaver_clear_all_metadata(sv) ==
    [checkpoints |-> sv.checkpoints, metadata |-> <<>>]

\* MemorySaver.clear_all
MemorySaver_clear_all(sv) == [checkpoints |-> <<>>, metadata |-> <<>>]

SetSaver(sv) ==
    /\ checkpoints' = sv.checkpoints
    /\ metadata' = sv.metadata

SaverPut(thread_id, checkpoint) ==
    /\ SetSaver(MemorySaver_put(SaverState, thread_id, checkpoint, now))
    /\ chist' = Append(chist, [op |-> "put", thread |-> thread_id,
                               checkpoint |-> checkpoint, at |-> now])
    /\ cret' = [op |-> "put", thread |-> thread_id]
    /\ UNCHANGED <<now, saverDisk, saverClients, storeVars, peers>>

SaverDelete(thread_id) ==
    /\ SetSaver(MemorySaver_delete(SaverState, thread_id))
    /\ chist' = Append(chist, [op |-> "delete", thread |-> thread_id])
    /\ cret' = [op |-> "delete", thread |-> thread_id]
    /\ UNCHANGED <<now, saverDisk, saverClients, storeVars, peers>>

SaverClearAll ==
    /\ SetSaver(MemorySaver_clear_all(SaverState))
    /\ chist' = Append(chist, [op |-> "clear_all"])
    /\ cret' = [op |-> "clear_all"]
    /\ UNCHANGED <<now, saverDisk, saverClients, storeVars, peers>>

SaverGet(thread_id) ==
    /\ cret' = [op |-> "get", thread |-> thread_id,
                val |-> MemorySaver_get(SaverState, thread_id)]
    /\ UNCHANGED <<checkpoints, metadata, chist, now, saverDisk, saverClients, storeVars, peers>>

SaverListThreads ==
    /\ cret' = [op |-> "list_threads",
                val |-> MemorySaver_list_threads(SaverState)]
    /\ UNCHANGED <<checkpoints, metadata, chist, now, saverDisk, saverClients, storeVars, peers>>

SaverGetMetadata(thread_id) ==
    /\ cret' = [op |-> "get_metadata", thread |-> thread_id,
                val |-> MemorySaver_get_metadata(SaverState, thread_id)]
    /\ UNCHANGED <<checkpoints, metadata, chist, now, saverDisk, saverClients, storeVars, peers>>

\* a clock whose advance removes the records that have expired
Tick_sweep ==
    /\ now < MaxTime
    /\ now' = now + 1
    /\ LET expired(k) == DictHas(ttl_data, k) /\ DictGet(ttl_data, k)[1] < now + 1
       IN  /\ data' = SelectSeq(data, LAMBDA e : ~expired(e.key))
           /\ ttl_data' = SelectSeq(ttl_data, LAMBDA e : ~expired(e.key))
    /\ UNCHANGED <<namespaces, hist, ret, storeDisk, saverVars, peers>>

\* time passes
Tick ==
    /\ now < MaxTime
    /\ now' = now + 1
    /\ UNCHANGED <<storeVars, saverVars, peers>>

----------------------------------------------------------------------------
(* The keyword arguments refresh_ttl and query *)

\* refresh_ttl: Optional[bool]
RefreshSet == { None, Some(TRUE), Some(FALSE) }
\* query: Optional[str]
QuerySet == { None, Some(s_a) }

\* a get that moves the expiry of the record it reads when refresh_ttl is true
InMemoryStore_get_call_refresh(st, namespace, key, refresh_ttl) ==
    LET ns_key == make_key(namespace, key)
    IN  [state |-> IF refresh_ttl = Some(TRUE) /\ DictHas(st.ttl_data, ns_key)
                   THEN [st EXCEPT !.ttl_data =
                            DictSet(st.ttl_data, ns_key,
                                    DictGet(st.ttl_data, ns_key)[1] + 60)]
                   ELSE st,
         val |-> DictGet(st.data, ns_key)]

\* InMemoryStore.get with its keyword argument: the state after the call and
\* the value returned (refresh_ttl is not read)
InMemoryStore_get_call(st, namespace, key, refresh_ttl) ==
    LET ns_key == make_key(namespace, key)
    IN  [state |-> st, val |-> DictGet(st.data, ns_key)]

\* InMemoryStore.search with its keyword arguments (query and refresh_ttl are
\* not read)
InMemoryStore_search_call(st, namespace_prefix, query, filter, limit, offset, refresh_ttl) ==
    [state |-> st,
     val |-> Slice(DictValues(search_entries(st, namespace_prefix, filter)),
                   offset, offset + limit)]

\* store.get(namespace, key, refresh_ttl=...)
GetWith(namespace, key, refresh_ttl) ==
    /\ LET r == InMemoryStore_get_call(StoreState, namespace, key, refresh_ttl)
       IN  /\ SetStore(r.state)
           /\ ret' = [op |-> "get", ns |-> namespace, key |-> key,
                      refresh_ttl |-> refresh_ttl, val |-> r.val]
    /\ UNCHANGED <<hist, now, storeDisk, saverVars, peers>>

\* store.search(namespace_prefix, query=..., filter=..., refresh_ttl=...)
SearchWith(namespace_prefix, query, filter, limit, offset, refresh_ttl) ==
    /\ LET r == InMemoryStore_search_call(StoreState, namespace_prefix, query,
                                          filter, limit, offset, refresh_ttl)
       IN  /\ SetStore(r.state)
           /\ ret' = [op |-> "search", ns |-> namespace_prefix,
                      query |-> query, filter |-> filter, limit |-> limit,
                      offset |-> offset, refresh_ttl |-> refresh_ttl,
                      val |-> r.val]
    /\ UNCHANGED <<hist, now, storeDisk, saverVars, peers>>

----------------------------------------------------------------------------
(* json and the file of a disk-backed instance *)

\* File contents. A JSON value is: a number; a str; [array |-> seq of JSON
\* values]; [object |-> o], o a dict (str -> JSON value) or, for a record
\* value, the function field -> value. json.load turns an array into a list,
\* written [list |-> seq], which is not a tuple.
Garbage == [kind |-> "garbage"]          \* text that json.load rejects
Undecodable == [kind |-> "undecodable"]  \* bytes that are not UTF-8
JsonArray == [kind |-> "array"]          \* the JSON document []
JsonObject(doc) == [kind |-> "object", doc |-> doc]  \* a JSON object, doc its members

\* the files a constructor may find at its path
InitialFiles == { NoFile, Garbage, Undecodable, JsonArray, JsonObject(<<>>) }

\* the outcome of open(path, "w") and json.dump
IoSet == { "ok", "open_fails", "write_fails" }

json_dump_record(v) == [object |-> v]
json_load_record(j) == j.object
json_number(x) == x

\* json.dump of a dict whose values are record values
json_dump_records(d) ==
    [object |-> [i \in DOMAIN d |->
                    [key |-> d[i].key, val |-> json_dump_record(d[i].val)]]]

\* json.load of such an object
json_load_records(j) ==
    [i \in DOMAIN j.object |->
        [key |-> j.object[i].key, val |-> json_load_record(j.object[i].val)]]

\* json.dump of a dict whose values are numbers
json_dump_numbers(d) ==
    [object |-> [i \in DOMAIN d |->
                    [key |-> d[i].key, val |-> json_number(d[i].val)]]]

\* json.load of such an object
json_load_numbers(j) ==
    [i \in DOMAIN j.object |->
        [key |-> j.object[i].key, val |-> json_number(j.object[i].val)]]

\* json.dump of a tuple or list of str: an array
json_dump_tuple(t) == [array |-> t]

\* json.load of an array of arrays of str: a list of lists
json_load_list_of_lists(j) ==
    [list |-> [i \in DOMAIN j.array |-> [list |-> j.array[i].array]]]

\* set(l) for a list l of lists: a list is unhashable, so set raises
\* TypeError unless l is empty
set_of_lists(l) ==
    IF l.list = <<>> THEN [set |-> {}, exc |-> "none"]
    ELSE [set |-> {}, exc |-> "TypeError"]

\* d.get(k, default) on the members of a JSON object
member(doc, k, default) == IF DictHas(doc, k) THEN DictGet(doc, k)[1] ELSE default

----------------------------------------------------------------------------
(* DiskBackedInMemStore *)

EmptyStore == [data |-> <<>>, namespaces |-> {}, ttl_data |-> <<>>]

\* a document that leaves the expiry entries out
store_document_without_ttl(st, order) ==
    JsonObject(<< [key |-> "data",
                   val |-> json_dump_records(st.data)],
                  [key |-> "namespaces",
                   val |-> [array |-> [i \in DOMAIN order |->
                                          json_dump_tuple(order[i])]]],
                  [key |-> "ttl_data", val |-> [object |-> <<>>]] >>)

\* the document _save_to_disk dumps, order being list(self._namespaces)
store_document(st, order) ==
    JsonObject(<< [key |-> "data",
                   val |-> json_dump_records(st.data)],
                  [key |-> "namespaces",
                   val |-> [array |-> [i \in DOMAIN order |->
                                          json_dump_tuple(order[i])]]],
                  [key |-> "ttl_data",
                   val |-> json_dump_numbers(st.ttl_data)] >>)

\* DiskBackedInMemStore._load_from_disk on the file f: the state loaded, and
\* the exception that leaves the method ("none" when none does)
DiskBackedInMemStore_load_from_disk(f) ==
    CASE f.kind = "absent" -> [state |-> EmptyStore, exc |-> "none"]
      [] f.kind = "garbage" -> [state |-> EmptyStore, exc |-> "none"]
      [] f.kind = "undecodable" -> [state |-> EmptyStore, exc |-> "UnicodeDecodeError"]
      [] f.kind = "array" -> [state |-> EmptyStore, exc |-> "AttributeError"]
      [] f.kind = "object" ->
            LET d == json_load_records(member(f.doc, "data", [object |-> <<>>]))
                n == set_of_lists(json_load_list_of_lists(
                         member(f.doc, "namespaces", [array |-> <<>>])))
                t == json_load_numbers(member(f.doc, "ttl_data", [object |-> <<>>]))
            IN  IF n.exc # "none"
                THEN [state |-> [EmptyStore EXCEPT !.data = d], exc |-> n.exc]
                ELSE [state |-> [data |-> d, namespaces |-> n.set, ttl_data |-> t],
                      exc |-> "none"]

\* DiskBackedInMemStore.__init__
DiskBackedInMemStore_init(path, f) ==
    IF path # None
    THEN DiskBackedInMemStore_load_from_disk(f)
    ELSE [state |-> EmptyStore, exc |-> "none"]

\* a _save_to_disk that swallows the error of a failed write
DiskBackedInMemStore_save_to_disk_swallow(st, path, f, io, order) ==
    IF path = None THEN [file |-> f, exc |-> "none"]
    ELSE CASE io = "ok" -> [file |-> store_document(st, order), exc |-> "none"]
           [] io = "open_fails" -> [file |-> f, exc |-> "none"]
           [] io = "write_fails" -> [file |-> Garbage, exc |-> "none"]

\* DiskBackedInMemStore._save_to_disk: the file afterwards and the exception
DiskBackedInMemStore_save_to_disk(st, path, f, io, order) ==
    IF path = None THEN [file |-> f, exc |-> "none"]
    ELSE CASE io = "ok" -> [file |-> store_document(st, order), exc |-> "none"]
           [] io = "open_fails" -> [file |-> f, exc |-> "OSError"]
           [] io = "write_fails" -> [file |-> Garbage, exc |-> "OSError"]

\* DiskBackedInMemStore(persist_path): a fresh instance replaces the current
\* one unless the constructor raises
StoreConstruct(path) ==
    /\ LET r == DiskBackedInMemStore_init(path, file)
       IN  /\ ret' = [op |-> "construct", path |-> path, error |-> r.exc,
                      exc |-> r.exc # "none"]
           /\ IF r.exc = "none"
              THEN SetStore(r.state) /\ persist_path' = path /\ alive' = TRUE
              ELSE UNCHANGED <<data, namespaces, ttl_data, persist_path, alive>>
    /\ UNCHANGED <<hist, file, now, saverVars, peers>>

\* DiskBackedInMemStore.put
DiskPut(namespace, key, value, ttl, io) ==
    /\ alive
    /\ LET st == InMemoryStore_put(StoreState, namespace, key, value, ttl, now)
       IN  /\ SetStore(st)
           /\ \E order \in Orderings(st.namespaces) :
                  LET w == DiskBackedInMemStore_save_to_disk(
                               st, persist_path, file, io, order)
                  IN  /\ file' = w.file
                      /\ ret' = [op |-> "put", ns |-> namespace, key |-> key,
                                 io |-> io, exc |-> w.exc # "none"]
    /\ hist' = Append(hist, [op |-> "put", ns |-> namespace, key |-> key,
                             value |-> value, ttl |-> ttl, at |-> now,
                             io |-> io])
    /\ UNCHANGED <<now, persist_path, alive, saverVars, peers>>

\* DiskBackedInMemStore.delete
DiskDelete(namespace, key, io) ==
    /\ alive
    /\ LET r == InMemoryStore_delete(StoreState, namespace, key)
       IN  /\ SetStore(r.state)
           /\ \E order \in Orderings(r.state.namespaces) :
                  LET w == IF r.exc THEN [file |-> file, exc |-> "KeyError"]
                           ELSE DiskBackedInMemStore_save_to_disk(
                                    r.state, persist_path, file, io, order)
                  IN  /\ file' = w.file
                      /\ ret' = [op |-> "delete", ns |-> namespace, key |-> key,
                                 io |-> io, exc |-> w.exc # "none"]
    /\ hist' = Append(hist, [op |-> "delete", ns |-> namespace, key |-> key,
                             io |-> io])
    /\ UNCHANGED <<now, persist_path, alive, saverVars, peers>>

----------------------------------------------------------------------------
(* DiskBackedMemorySaver *)

EmptySaver == [checkpoints |-> <<>>, metadata |-> <<>>]

\* a document without the metadata
saver_document_checkpoints_only(sv) ==
    JsonObject(<< [key |-> "checkpoints",
                   val |-> json_dump_records(sv.checkpoints)] >>)

\* the document _save_to_disk dumps
saver_document(sv) ==
    JsonObject(<< [key |-> "checkpoints",
                   val |-> json_dump_records(sv.checkpoints)],
                  [key |-> "metadata",
                   val |-> json_dump_records(sv.metadata)] >>)

\* DiskBackedMemorySaver._load_from_disk on the file f
DiskBackedMemorySaver_load_from_disk(f) ==
    CASE f.kind = "absent" -> [state |-> EmptySaver, exc |-> "none"]
      [] f.kind = "garbage" -> [state |-> EmptySaver, exc |-> "none"]
      [] f.kind = "undecodable" -> [state |-> EmptySaver, exc |-> "UnicodeDecodeError"]
      [] f.kind = "array" -> [state |-> EmptySaver, exc |-> "AttributeError"]
      [] f.kind = "object" ->
            [state |-> [checkpoints |-> json_load_records(
                            member(f.doc, "checkpoints", [object |-> <<>>])),
                        metadata |-> json_load_records(
                            member(f.doc, "metadata", [object |-> <<>>]))],
             exc |-> "none"]

\* DiskBackedMemorySaver.__init__
DiskBackedMemorySaver_init(path, f) ==
    IF path # None
    THEN DiskBackedMemorySaver_load_from_disk(f)
    ELSE [state |-> EmptySaver, exc |-> "none"]

\* d.update(e)
RECURSIVE DictUpdate(_, _)
DictUpdate(d, e) ==
    IF e = <<>> THEN d
    ELSE DictUpdate(DictSet(d, e[1].key, e[1].val), Tail(e))

\* a _save_to_disk that merges the state into what the file holds
DiskBackedMemorySaver_save_to_disk_merge(sv, path, f, io) ==
    IF path = None THEN [file |-> f, exc |-> "none"]
    ELSE LET old == IF f.kind = "object"
                    THEN DiskBackedMemorySaver_load_from_disk(f).state
                    ELSE EmptySaver
             merged == [checkpoints |-> DictUpdate(old.checkpoints, sv.checkpoints),
                        metadata |-> DictUpdate(old.metadata, sv.metadata)]
         IN  CASE io = "ok" -> [file |-> saver_document(merged), exc |-> "none"]
               [] io = "open_fails" -> [file |-> f, exc |-> "OSError"]
               [] io = "write_fails" -> [file |-> Garbage, exc |-> "OSError"]

\* DiskBackedMemorySaver._save_to_disk: the file afterwards and the exception
DiskBackedMemorySaver_save_to_disk(sv, path, f, io) ==
    IF path = None THEN [file |-> f, exc |-> "none"]
    ELSE CASE io = "ok" -> [file |-> saver_document(sv), exc |-> "none"]
           [] io = "open_fails" -> [file |-> f, exc |-> "OSError"]
           [] io = "write_fails" -> [file |-> Garbage, exc |-> "OSError"]

\* DiskBackedMemorySaver(persist_path)
SaverConstruct(path) ==
    /\ LET r == DiskBackedMemorySaver_init(path, saver_file)
       IN  /\ cret' = [op |-> "construct", path |-> path, error |-> r.exc,
                       exc |-> r.exc # "none"]
           /\ IF r.exc = "none"
              THEN /\ SetSaver(r.state)
                   /\ saver_persist_path' = path
                   /\ saver_alive' = TRUE
              ELSE UNCHANGED <<checkpoints, metadata, saver_persist_path,
                               saver_alive>>
    /\ UNCHANGED <<chist, saver_file, now, saverClients, storeVars, peers>>

\* a mutating call of DiskBackedMemorySaver: the base method, then _save_to_disk
SaverWrite(sv, call, io) ==
    /\ saver_alive
    /\ SetSaver(sv)
    /\ LET w == DiskBackedMemorySaver_save_to_disk(sv, saver_persist_path,
                                                   saver_file, io)
       IN  /\ saver_file' = w.file
           /\ cret' = [call EXCEPT !.exc = w.exc # "none"]
    /\ UNCHANGED <<now, saver_persist_path, saver_alive, saverClients, storeVars, peers>>

\* DiskBackedMemorySaver.put
DiskSaverPut(thread_id, checkpoint, io) ==
    /\ SaverWrite(MemorySaver_put(SaverState, thread_id, checkpoint, now),
                  [op |-> "put", thread |-> thread_id, io |-> io, exc |-> FALSE],
                  io)
    /\ chist' = Append(chist, [op |-> "put", thread |-> thread_id,
                               checkpoint |-> checkpoint, at |-> now,
                               io |-> io])

\* DiskBackedMemorySaver.delete
DiskSaverDelete(thread_id, io) ==
    /\ SaverWrite(MemorySaver_delete(SaverState, thread_id),
                  [op |-> "delete", thread |-> thread_id, io |-> io, exc |-> FALSE],
                  io)
    /\ chist' = Append(chist, [op |-> "delete", thread |-> thread_id,
                               io |-> io])

\* DiskBackedMemorySaver.clear_all
DiskSaverClearAll(io) ==
    /\ SaverWrite(MemorySaver_clear_all(SaverState),
                  [op |-> "clear_all", io |-> io, exc |-> FALSE], io)
    /\ chist' = Append(chist, [op |-> "clear_all", io |-> io])

----------------------------------------------------------------------------
(* A second instance on the same path *)

\* DiskBackedInMemStore(persist_path) once more, on the path of the first
\* instance, which stays in use
PeerStoreConstruct ==
    /\ alive
    /\ persist_path # None
    /\ peer_store = None
    /\ LET r == DiskBackedInMemStore_init(persist_path, file)
       IN  /\ ret' = [op |-> "peer_construct", path |-> persist_path,
                      error |-> r.exc, exc |-> r.exc # "none"]
           /\ peer_store' = IF r.exc = "none" THEN Some(r.state) ELSE None
    /\ UNCHANGED <<data, namespaces, ttl_data, hist, now, storeDisk, saverVars,
                   peer_saver>>

\* put on the second store
PeerDiskPut(namespace, key, value, ttl, io) ==
    /\ peer_store # None
    /\ LET st == InMemoryStore_put(peer_store[1], namespace, key, value, ttl, now)
       IN  /\ peer_store' = Some(st)
           /\ \E order \in Orderings(st.namespaces) :
                  LET w == DiskBackedInMemStore_save_to_disk(
                               st, persist_path, file, io, order)
                  IN  /\ file' = w.file
                      /\ ret' = [op |-> "peer_put", ns |-> namespace,
                                 key |-> key, io |-> io, exc |-> w.exc # "none"]
    /\ UNCHANGED <<data, namespaces, ttl_data, hist, now, persist_path, alive,
                   saverVars, peer_saver>>

\* delete on the second store
PeerDiskDelete(namespace, key, io) ==
    /\ peer_store # None
    /\ LET r == InMemoryStore_delete(peer_store[1], namespace, key)
       IN  /\ peer_store' = Some(r.state)
           /\ \E order \in Orderings(r.state.namespaces) :
                  LET w == IF r.exc THEN [file |-> file, exc |-> "KeyError"]
                           ELSE DiskBackedInMemStore_save_to_disk(
                                    r.state, persist_path, file, io, order)
                  IN  /\ file' = w.file
                      /\ ret' = [op |-> "peer_delete", ns |-> namespace,
                                 key |-> key, io |-> io, exc |-> w.exc # "none"]
    /\ UNCHANGED <<data, namespaces, ttl_data, hist, now, persist_path, alive,
                   saverVars, peer_saver>>

\* DiskBackedMemorySaver(persist_path) once more, on the path of the first
PeerSaverConstruct ==
    /\ saver_alive
    /\ saver_persist_path # None
    /\ peer_saver = None
    /\ LET r == DiskBackedMemorySaver_init(saver_persist_path, saver_file)
       IN  /\ cret' = [op |-> "peer_construct", path |-> saver_persist_path,
                       error |-> r.exc, exc |-> r.exc # "none"]
           /\ peer_saver' = IF r.exc = "none" THEN Some(r.state) ELSE None
    /\ UNCHANGED <<checkpoints, metadata, chist, now, saverDisk, saverClients,
                   storeVars, peer_store>>

\* a mutating call on the second saver: the base method, then _save_to_disk
PeerSaverWrite(sv, call, io) ==
    /\ peer_saver # None
    /\ peer_saver' = Some(sv)
    /\ LET w == DiskBackedMemorySaver_save_to_disk(sv, saver_persist_path,
                                                   saver_file, io)
       IN  /\ saver_file' = w.file
           /\ cret' = [call EXCEPT !.exc = w.exc # "none"]
    /\ UNCHANGED <<checkpoints, metadata, chist, now, saver_persist_path,
                   saver_alive, saverClients, storeVars, peer_store>>

\* put on the second saver
PeerSaverPut(thread_id, checkpoint, io) ==
    /\ peer_saver # None
    /\ PeerSaverWrite(MemorySaver_put(peer_saver[1], thread_id, checkpoint, now),
                      [op |-> "peer_put", thread |-> thread_id, io |-> io,
                       exc |-> FALSE], io)

\* delete on the second saver
PeerSaverDelete(thread_id, io) ==
    /\ peer_saver # None
    /\ PeerSaverWrite(MemorySaver_delete(peer_saver[1], thread_id),
                      [op |-> "peer_delete", thread |-> thread_id, io |-> io,
                       exc |-> FALSE], io)

\* clear_all on the second saver
PeerSaverClearAll(io) ==
    /\ peer_saver # None
    /\ PeerSaverWrite(MemorySaver_clear_all(peer_saver[1]),
                      [op |-> "peer_clear_all", io |-> io, exc |-> FALSE], io)

----------------------------------------------------------------------------
(* CheckpointContext *)

\* CheckpointContext.__init__: the handle keeps the thread_id (its saver is
\* the one saver of the model)
CheckpointContext_init(thread_id) == [thread_id |-> thread_id]

\* checkpoint_context(saver, thread_id): the handle it yields
checkpoint_context(thread_id) == CheckpointContext_init(thread_id)

\* MemorySaver.__enter__: the handle `with saver` binds
MemorySaver_enter == CheckpointContext_init("default")

\* a save that writes the slot of "default"
CheckpointContext_save_default(sv, h, checkpoint, t) ==
    MemorySaver_put(sv, "default", checkpoint, t)

\* CheckpointContext.save
CheckpointContext_save(sv, h, checkpoint, t) ==
    MemorySaver_put(sv, h.thread_id, checkpoint, t)

\* CheckpointContext.load
CheckpointContext_load(sv, h) == MemorySaver_get(sv, h.thread_id)

\* a handle comes into use
Acquire(h, how) ==
    /\ handles' = handles \cup {h}
    /\ cret' = [op |-> "acquire", how |-> how, handle |-> h]
    /\ UNCHANGED <<checkpoints, metadata, chist, now, saverDisk, tasks, storeVars, peers>>

\* with CheckpointContext(saver, thread_id) as h
NewContext(thread_id) == Acquire(CheckpointContext_init(thread_id), "class")

\* with checkpoint_context(saver, thread_id) as h
ContextManager(thread_id) == Acquire(checkpoint_context(thread_id), "function")

\* with saver as h
WithSaver == Acquire(MemorySaver_enter, "saver")

\* the end of a with block: __exit__ does nothing, and the object is as
\* usable as before
Release(h) ==
    /\ h \in handles
    /\ cret' = [op |-> "release", handle |-> h]
    /\ UNCHANGED <<checkpoints, metadata, chist, now, saverDisk, saverClients,
                   storeVars, peers>>

\* h.save(checkpoint)
HandleSave(h, checkpoint) ==
    /\ h \in handles
    /\ SetSaver(CheckpointContext_save(SaverState, h, checkpoint, now))
    /\ chist' = Append(chist, [op |-> "put", thread |-> h.thread_id,
                               checkpoint |-> checkpoint, at |-> now])
    /\ cret' = [op |-> "save", handle |-> h, checkpoint |-> checkpoint]
    /\ UNCHANGED <<now, saverDisk, saverClients, storeVars, peers>>

\* h.load()
HandleLoad(h) ==
    /\ h \in handles
    /\ cret' = [op |-> "load", handle |-> h,
                val |-> CheckpointContext_load(SaverState, h)]
    /\ UNCHANGED <<checkpoints, metadata, chist, now, saverDisk, saverClients,
                   storeVars, peers>>

----------------------------------------------------------------------------
(* AsyncMemorySaver *)

\* the coroutines that call the saver
Coroutines == {1, 2}

\* a coroutine between calls, n of its calls done
Idle(n) == [st |-> "idle", done |-> n]
\* a coroutine whose call is created and has not run yet
Pending(n, call) == [st |-> "pending", done |-> n, call |-> call]

\* the calls a coroutine makes
AsyncCalls ==
    { [op |-> "aput", thread |-> t, checkpoint |-> c] :
          t \in ThreadSet, c \in CheckpointSet }
    \cup { [op |-> o, thread |-> t] : o \in {"adelete", "aget"}, t \in ThreadSet }
    \cup { [op |-> "aclear_all"], [op |-> "alist_threads"] }

AsyncMemorySaver_aget(sv, thread_id) == MemorySaver_get(sv, thread_id)

\* an aput whose body does not run
AsyncMemorySaver_aput_dropped(sv, thread_id, checkpoint, t) == sv

AsyncMemorySaver_aput(sv, thread_id, checkpoint, t) ==
    MemorySaver_put(sv, thread_id, checkpoint, t)

AsyncMemorySaver_adelete(sv, thread_id) == MemorySaver_delete(sv, thread_id)

AsyncMemorySaver_alist_threads(sv) == MemorySaver_list_threads(sv)

AsyncMemorySaver_aclear_all(sv) == MemorySaver_clear_all(sv)

\* coroutine c creates the coroutine object of a call (saver.aput(...)); the
\* body has not started
AsyncIssue(c, call) ==
    /\ tasks[c].st = "idle"
    /\ tasks' = [tasks EXCEPT ![c] = Pending(tasks[c].done, call)]
    /\ UNCHANGED <<checkpoints, metadata, chist, cret, now, saverDisk, handles,
                   storeVars, peers>>

\* the event loop runs the call of coroutine c: the body has no await, so it
\* runs from its first statement to its return in one step of the loop
AsyncRun(c) ==
    /\ tasks[c].st = "pending"
    /\ LET call == tasks[c].call
           n == tasks[c].done + 1
           who == [task |-> c, n |-> n]
       IN  /\ tasks' = [tasks EXCEPT ![c] = Idle(n)]
           /\ CASE call.op = "aput" ->
                     /\ SetSaver(AsyncMemorySaver_aput(SaverState, call.thread,
                                                       call.checkpoint, now))
                     /\ chist' = Append(chist,
                            [op |-> "put", thread |-> call.thread,
                             checkpoint |-> call.checkpoint, at |-> now,
                             by |-> who])
                     /\ cret' = [op |-> "aput", thread |-> call.thread, by |-> who]
                [] call.op = "adelete" ->
                     /\ SetSaver(AsyncMemorySaver_adelete(SaverState, call.thread))
                     /\ chist' = Append(chist,
                            [op |-> "delete", thread |-> call.thread, by |-> who])
                     /\ cret' = [op |-> "adelete", thread |-> call.thread,
                                 by |-> who]
                [] call.op = "aclear_all" ->
                     /\ SetSaver(AsyncMemorySaver_aclear_all(SaverState))
                     /\ chist' = Append(chist, [op |-> "clear_all", by |-> who])
                     /\ cret' = [op |-> "aclear_all", by |-> who]
                [] call.op = "aget" ->
                     /\ cret' = [op |-> "aget", thread |-> call.thread, by |-> who,
                                 val |-> AsyncMemorySaver_aget(SaverState,
                                                               call.thread)]
                     /\ UNCHANGED <<checkpoints, metadata, chist>>
                [] call.op = "alist_threads" ->
                     /\ cret' = [op |-> "alist_threads", by |-> who,
                                 val |-> AsyncMemorySaver_alist_threads(SaverState)]
                     /\ UNCHANGED <<checkpoints, metadata, chist>>
    /\ UNCHANGED <<now, saverDisk, handles, storeVars, peers>>

----------------------------------------------------------------------------
(* Specifications *)

\* InMemoryStore.__init__ and MemorySaver.__init__
Init ==
    /\ data = <<>>
    /\ namespaces = {}
    /\ ttl_data = <<>>
    /\ hist = <<>>
    /\ ret = NoCall
    /\ checkpoints = <<>>
    /\ metadata = <<>>
    /\ chist = <<>>
    /\ cret = NoCall
    /\ now = 0
    /\ persist_path = None
    /\ file = NoFile
    /\ alive = TRUE
    /\ saver_persist_path = None
    /\ saver_file = NoFile
    /\ saver_alive = TRUE
    /\ handles = {}
    /\ tasks = [c \in Coroutines |-> Idle(0)]
    /\ peer_store = None
    /\ peer_saver = None

\* the store under put, delete and get
Next ==
    \/ \E ns \in NsSet, k \in KeySet, v \in ValueSet, ttl \in TtlSet :
           Len(hist) < MaxOps /\ Put(ns, k, v, ttl)
    \/ \E ns \in NsSet, k \in KeySet :
           Len(hist) < MaxOps /\ Delete(ns, k)
    \/ \E ns \in NsSet, k \in KeySet : Get(ns, k)

Spec == Init /\ [][Next]_vars

\* the store under put, delete and search
NextSearch ==
    \/ \E ns \in NsSet, k \in KeySet, v \in ValueSet :
           Len(hist) < MaxOps /\ Put(ns, k, v, None)
    \/ \E ns \in NsSet, k \in KeySet :
           Len(hist) < MaxOps /\ Delete(ns, k)
    \/ \E ns \in NsSet, f \in FilterSet : Search(ns, f, 10, 0)

SpecSearch == Init /\ [][NextSearch]_vars

\* the store under put, delete and list_namespaces
NextList ==
    \/ \E ns \in NsSet :
           Len(hist) < MaxListOps /\ Put(ns, s_k, [type |-> "x"], None)
    \/ \E ns \in NsSet :
           Len(hist) < MaxListOps /\ Delete(ns, s_k)
    \/ \E p \in PrefixSet, s \in SuffixSet, d \in DepthSet :
           ListNamespaces(p, s, d, 100, 0)

SpecList == Init /\ [][NextList]_vars

\* the checkpoint saver
NextSaver ==
    \/ \E t \in ThreadSet, c \in CheckpointSet :
           Len(chist) < MaxSaverOps /\ SaverPut(t, c)
    \/ \E t \in ThreadSet : Len(chist) < MaxSaverOps /\ SaverDelete(t)
    \/ Len(chist) < MaxSaverOps /\ SaverClearAll
    \/ \E t \in ThreadSet : SaverGet(t)
    \/ SaverListThreads
    \/ \E t \in ThreadSet : SaverGetMetadata(t)
    \/ Tick

SpecSaver == Init /\ [][NextSaver]_vars

\* the disk-backed store and the disk-backed saver: nothing is constructed
\* yet, and one of the two paths holds a file of any content
InitMirror ==
    /\ data = <<>>
    /\ namespaces = {}
    /\ ttl_data = <<>>
    /\ hist = <<>>
    /\ ret = NoCall
    /\ checkpoints = <<>>
    /\ metadata = <<>>
    /\ chist = <<>>
    /\ cret = NoCall
    /\ now = 0
    /\ persist_path = None
    /\ alive = FALSE
    /\ saver_persist_path = None
    /\ saver_alive = FALSE
    /\ handles = {}
    /\ tasks = [c \in Coroutines |-> Idle(0)]
    /\ peer_store = None
    /\ peer_saver = None
    /\ \/ file \in InitialFiles /\ saver_file = NoFile
       \/ file = NoFile /\ saver_file \in InitialFiles

\* persist_path arguments
StorePaths == { None, Some("store.json") }
SaverPaths == { None, Some("checkpoints.json") }
\* namespaces used with the disk-backed store
MirrorNsSet == { <<s_a>>, <<s_a, s_b>> }

\* a behaviour drives the store or the saver
NextMirror ==
    \/ \E path \in StorePaths : cret = NoCall /\ StoreConstruct(path)
    \/ \E ns \in MirrorNsSet, io \in IoSet :
           /\ cret = NoCall /\ Len(hist) < MaxMirrorOps
           /\ DiskPut(ns, s_k, [type |-> "x"], Some(1), io)
    \/ \E ns \in MirrorNsSet, io \in IoSet :
           /\ cret = NoCall /\ Len(hist) < MaxMirrorOps
           /\ DiskDelete(ns, s_k, io)
    \/ \E ns \in MirrorNsSet : cret = NoCall /\ alive /\ Get(ns, s_k)
    \/ \E path \in SaverPaths : ret = NoCall /\ SaverConstruct(path)
    \/ \E t \in ThreadSet, io \in IoSet :
           /\ ret = NoCall /\ Len(chist) < MaxMirrorOps
           /\ DiskSaverPut(t, [step |-> 1], io)
    \/ \E t \in ThreadSet, io \in IoSet :
           /\ ret = NoCall /\ Len(chist) < MaxMirrorOps
           /\ DiskSaverDelete(t, io)
    \/ \E io \in IoSet :
           /\ ret = NoCall /\ Len(chist) < MaxMirrorOps
           /\ DiskSaverClearAll(io)
    \/ \E t \in ThreadSet : ret = NoCall /\ saver_alive /\ SaverGet(t)

SpecMirror == InitMirror /\ [][NextMirror]_vars

\* ttl arguments, in minutes
TtlMinutes == { None, Some(1), Some(2) }
\* namespaces of the calls about expiry; the last two give one composite key
TtlNsSet == { <<s_a>>, <<s_a, s_b>>, <<s_a_b>> }

\* the store under put with and without ttl and delete, while time passes
NextTtl ==
    \/ \E ns \in TtlNsSet, ttl \in TtlMinutes :
           Len(hist) < MaxTtlOps /\ Put(ns, s_k, [type |-> "x"], ttl)
    \/ \E ns \in TtlNsSet : Len(hist) < MaxTtlOps /\ Delete(ns, s_k)
    \/ Tick

SpecTtl == Init /\ [][NextTtl]_vars

\* reads of a disk-backed store or saver, with every keyword argument, between
\* writes that succeed
NextReads ==
    \/ cret = NoCall /\ ~alive /\ StoreConstruct(Some("store.json"))
    \/ \E ns \in MirrorNsSet, v \in ValueSet :
           /\ cret = NoCall /\ Len(hist) < MaxReadOps
           /\ DiskPut(ns, s_k, v, Some(1), "ok")
    \/ \E ns \in MirrorNsSet :
           /\ cret = NoCall /\ Len(hist) < MaxReadOps
           /\ DiskDelete(ns, s_k, "ok")
    \/ \E ns \in MirrorNsSet, r \in RefreshSet :
           cret = NoCall /\ alive /\ GetWith(ns, s_k, r)
    \/ \E q \in QuerySet, f \in {None, Some([type |-> "x"])}, r \in RefreshSet :
           cret = NoCall /\ alive /\ SearchWith(<<s_a>>, q, f, 10, 0, r)
    \/ cret = NoCall /\ alive /\ ListNamespaces(None, None, None, 100, 0)
    \/ ret = NoCall /\ ~saver_alive /\ SaverConstruct(Some("checkpoints.json"))
    \/ \E t \in ThreadSet, c \in CheckpointSet :
           /\ ret = NoCall /\ Len(chist) < MaxReadOps
           /\ DiskSaverPut(t, c, "ok")
    \/ \E t \in ThreadSet : ret = NoCall /\ saver_alive /\ SaverGet(t)
    \/ \E t \in ThreadSet : ret = NoCall /\ saver_alive /\ SaverGetMetadata(t)
    \/ ret = NoCall /\ saver_alive /\ SaverListThreads

SpecReads == InitMirror /\ [][NextReads]_vars

\* handles on a MemorySaver, next to direct calls of the saver
NextHandle ==
    \/ \E t \in ThreadSet : NewContext(t)
    \/ \E t \in ThreadSet : ContextManager(t)
    \/ WithSaver
    \/ \E h \in handles : Release(h)
    \/ \E h \in handles, c \in CheckpointSet :
           Len(chist) < MaxHandleOps /\ HandleSave(h, c)
    \/ \E h \in handles : HandleLoad(h)
    \/ \E t \in ThreadSet, c \in CheckpointSet :
           Len(chist) < MaxHandleOps /\ SaverPut(t, c)
    \/ \E t \in ThreadSet : SaverGet(t)

SpecHandle == Init /\ [][NextHandle]_vars

\* the calls made by all coroutines, done or created
AsyncCallCount ==
    LET n(c) == tasks[c].done + (IF tasks[c].st = "pending" THEN 1 ELSE 0)
    IN  n(1) + n(2)

\* coroutines calling an AsyncMemorySaver, scheduled in any order
NextAsync ==
    \/ \E c \in Coroutines, call \in AsyncCalls :
           AsyncCallCount < MaxAsyncOps /\ AsyncIssue(c, call)
    \/ \E c \in Coroutines : AsyncRun(c)

SpecAsync == Init /\ [][NextAsync]_vars

\* ttl arguments that let the expiry pass within the run of the clock: 0
\* minutes expires at the call time
ExpiringTtl == { None, Some(0), Some(1) }
\* namespaces of the calls about expired records
ExpiryNsSet == { <<s_a>>, <<s_a, s_b>> }

\* the store under put with a ttl, delete, get and search, while time passes
NextExpiry ==
    \/ \E ns \in ExpiryNsSet, v \in ValueSet, ttl \in ExpiringTtl :
           Len(hist) < MaxExpiryOps /\ Put(ns, s_k, v, ttl)
    \/ \E ns \in ExpiryNsSet : Len(hist) < MaxExpiryOps /\ Delete(ns, s_k)
    \/ \E ns \in ExpiryNsSet : Get(ns, s_k)
    \/ Search(<<s_a>>, None, 10, 0)
    \/ Tick

SpecExpiry == Init /\ [][NextExpiry]_vars

\* namespaces of the records that are paged: all start with the segment a
PageNsSet == { <<s_a>>, <<s_a, s_b>>, <<s_a, s_a>> }
\* limit and offset arguments
LimitSet == {0, 1, 2}
OffsetSet == {0, 1, 2, 3}

\* search and list_namespaces with limit and offset over a store of up to
\* MaxPageOps records
NextPages ==
    \/ \E ns \in PageNsSet, v \in ValueSet :
           Len(hist) < MaxPageOps /\ Put(ns, s_k, v, None)
    \/ \E f \in {None, Some([type |-> "x"])}, l \in LimitSet, o \in OffsetSet :
           Search(<<s_a>>, f, l, o)
    \/ \E l \in LimitSet \ {0}, o \in OffsetSet :
           ListNamespaces(None, Some(<<s_b>>), Some(2), l, o)

SpecPages == Init /\ [][NextPages]_vars

\* two stores, or two savers, on one path; their calls interleave in any order
NextPeers ==
    \/ cret = NoCall /\ ~alive /\ StoreConstruct(Some("store.json"))
    \/ \E ns \in MirrorNsSet :
           /\ cret = NoCall /\ Len(hist) < MaxPeerOps
           /\ DiskPut(ns, s_k, [type |-> "x"], Some(1), "ok")
    \/ \E ns \in MirrorNsSet :
           /\ cret = NoCall /\ Len(hist) < MaxPeerOps
           /\ DiskDelete(ns, s_k, "ok")
    \/ cret = NoCall /\ PeerStoreConstruct
    \/ \E ns \in MirrorNsSet :
           PeerDiskPut(ns, s_k, [type |-> "y", name |-> "Ann"], None, "ok")
    \/ \E ns \in MirrorNsSet : PeerDiskDelete(ns, s_k, "ok")
    \/ ret = NoCall /\ ~saver_alive /\ SaverConstruct(Some("checkpoints.json"))
    \/ \E t \in ThreadSet :
           /\ ret = NoCall /\ Len(chist) < MaxPeerOps
           /\ DiskSaverPut(t, [step |-> 1], "ok")
    \/ \E t \in ThreadSet :
           /\ ret = NoCall /\ Len(chist) < MaxPeerOps
           /\ DiskSaverDelete(t, "ok")
    \/ ret = NoCall /\ Len(chist) < MaxPeerOps /\ DiskSaverClearAll("ok")
    \/ ret = NoCall /\ PeerSaverConstruct
    \/ \E t \in ThreadSet : PeerSaverPut(t, [step |-> 2, done |-> 10], "ok")
    \/ \E t \in ThreadSet : PeerSaverDelete(t, "ok")
    \/ PeerSaverClearAll("ok")

SpecPeers == InitMirror /\ [][NextPeers]_vars

\* namespaces without an empty segment and without ':', among them segments
\* that begin alike ("a" and "ab")
CleanNsSet == { <<s_a>>, <<s_ab>>, <<s_a, s_b>>, <<s_a, s_ab>> }
\* leaf keys without ':'; "b" is also a segment
CleanKeySet == { s_b, s_k }
\* search prefixes
CleanPrefixSet == { <<>>, <<s_a>>, <<s_a, s_b>>, <<s_ab>> }

\* put and search on names without the delimiter
NextClean ==
    \/ \E ns \in CleanNsSet, k \in CleanKeySet, v \in ValueSet :
           Len(hist) < MaxCleanOps /\ Put(ns, k, v, None)
    \/ \E ns \in CleanNsSet, k \in CleanKeySet :
           Len(hist) < MaxCleanOps /\ Delete(ns, k)
    \/ \E P \in CleanPrefixSet : Search(P, None, 10, 0)

SpecClean == Init /\ [][NextClean]_vars

----------------------------------------------------------------------------
(* Helpers of the properties: the call history *)

Range(seq) == { seq[i] : i \in DOMAIN seq }

\* how many positions of seq satisfy Test
Count(seq, Test(_)) == Cardinality({ i \in DOMAIN seq : Test(seq[i]) })

\* the last call of hist on the pair (ns, k), or None
RECURSIVE LastCallOn(_, _, _)
LastCallOn(h, ns, k) ==
    IF h = <<>> THEN None
    ELSE LET c == h[Len(h)]
         IN  IF c.ns = ns /\ c.key = k THEN Some(c)
             ELSE LastCallOn(SubSeq(h, 1, Len(h) - 1), ns, k)

\* the pairs (ns, k) whose last call was a put: the records put and not deleted
StoredPairs ==
    { p \in NsSet \X KeySet :
        LET c == LastCallOn(hist, p[1], p[2])
        IN  c # None /\ c[1].op = "put" }

\* the value given by the last put on a stored pair
StoredValue(p) == LastCallOn(hist, p[1], p[2])[1].value

----------------------------------------------------------------------------
(* C1 *)

\* C1: immediately after put(ns, k, v), get(ns, k) returns v, whether or not
\* (ns, k) held a value before; _data holds exactly one entry for (ns, k), and
\* an unfiltered search under ns returns that entry once, with value v.
C1_PutThenGet ==
    ret.op = "put" =>
        LET c == hist[Len(hist)]
            ns_key == make_key(c.ns, c.key)
            found == search_entries(StoreState, c.ns, None)
        IN  /\ InMemoryStore_get(StoreState, c.ns, c.key) = Some(c.value)
            /\ Cardinality(DictPos(data, ns_key)) = 1
            /\ Cardinality(DictPos(found, ns_key)) = 1
            /\ \A i \in DictPos(found, ns_key) :
                   InMemoryStore_search(StoreState, c.ns, None, 10, 0)[i] = c.value

\* a put has just replaced the different value an earlier put gave the pair
C1_Witness ==
    /\ ret.op = "put"
    /\ Len(hist) = 2
    /\ hist[1].op = "put" /\ hist[2].op = "put"
    /\ hist[1].ns = hist[2].ns /\ hist[1].key = hist[2].key
    /\ hist[1].value # hist[2].value
    /\ InMemoryStore_get(StoreState, hist[2].ns, hist[2].key) = Some(hist[2].value)

----------------------------------------------------------------------------
(* C2 *)

\* C2: after delete(ns, k), get(ns, k) returns None; delete does not raise,
\* also when (ns, k) was never stored; and a second delete(ns, k) leaves
\* _data, _namespaces and _ttl_data as the first left them.
C2_DeleteThenGet ==
    ret.op = "delete" =>
        /\ InMemoryStore_get(StoreState, ret.ns, ret.key) = None
        /\ ret.exc = FALSE
        /\ InMemoryStore_delete(StoreState, ret.ns, ret.key)
               = [state |-> StoreState, exc |-> FALSE]

\* a delete has just removed a record that was stored with an expiry entry
C2_Witness ==
    /\ ret.op = "delete"
    /\ Len(hist) = 2
    /\ hist[1].op = "put" /\ hist[1].ttl # None
    /\ hist[1].ns = ret.ns /\ hist[1].key = ret.key
    /\ data = <<>> /\ ttl_data = <<>> /\ namespaces # {}

----------------------------------------------------------------------------
(* C3 *)

\* C3: the composite key is injective: two calls whose composite keys are
\* equal name the same namespace and the same leaf key.
C3_KeyInjective ==
    \A i, j \in DOMAIN hist :
        make_key(hist[i].ns, hist[i].key) = make_key(hist[j].ns, hist[j].key)
            => (hist[i].ns = hist[j].ns /\ hist[i].key = hist[j].key)

----------------------------------------------------------------------------
(* C4 *)

\* C4: a put(ns, k, v) or delete(ns, k) leaves the result of get(ns2, k2)
\* unchanged for every other pair (ns2, k2).
C4_Isolated ==
    [][ (hist' # hist) =>
          \A ns2 \in NsSet, k2 \in KeySet :
              (<<ns2, k2>> # <<ret'.ns, ret'.key>>) =>
                  InMemoryStore_get(StoreState', ns2, k2)
                      = InMemoryStore_get(StoreState, ns2, k2) ]_vars

----------------------------------------------------------------------------
(* C5 *)

\* namespace ns starts, segment by segment, with the prefix P
HasPrefix(ns, P) == Len(P) <= Len(ns) /\ SubSeq(ns, 1, Len(P)) = P

\* every (field, value) pair of the filter F is in the record v
FilterHolds(v, F) ==
    F = None \/ \A f \in DOMAIN F[1] : f \in DOMAIN v /\ v[f] = F[1][f]

\* the stored pairs a search of prefix P and filter F is to return
Wanted(P, F) ==
    { p \in StoredPairs : HasPrefix(p[1], P) /\ FilterHolds(StoredValue(p), F) }

\* C5: search(P, filter=F) with offset 0 and a limit no less than the number
\* of records returns exactly the records stored under a namespace that
\* starts with P and that F matches: each such record once, and no other.
C5_SearchExact ==
    \A P \in NsSet, F \in FilterSet, v \in ValueSet :
        Count(InMemoryStore_search(StoreState, P, F, 10, 0), LAMBDA x : x = v)
            = Cardinality({ p \in Wanted(P, F) : StoredValue(p) = v })

----------------------------------------------------------------------------
(* C6 *)

\* C6: the filter condition of search accepts a record exactly when every
\* field of the filter is in the record with an equal value; a filter that is
\* None and a filter that is the empty dict accept every record; and a search
\* returns, in order, the values of the entries under the encoded prefix that
\* the filter accepts.
C6_FilterMatcher ==
    /\ \A v \in ValueSet \cup Range(DictValues(data)), F \in FilterSet :
           /\ (F = None \/ matches_filter(v, F[1])) <=> FilterHolds(v, F)
           /\ (F # None => (matches_filter(v, F[1]) <=>
                              \A f \in DOMAIN F[1] :
                                  f \in DOMAIN v /\ v[f] = F[1][f]))
           /\ (F # None /\ DOMAIN F[1] = {}) => matches_filter(v, F[1])
    /\ ret.op = "search" =>
           ret.val = DictValues(SelectSeq(data, LAMBDA e :
                         /\ startswith(e.key, make_key(ret.ns, <<>>))
                         /\ FilterHolds(e.val, ret.filter)))

\* a search with a non-empty filter has kept one record and rejected another
C6_Witness ==
    /\ ret.op = "search"
    /\ ret.filter # None
    /\ DOMAIN ret.filter[1] # {}
    /\ Len(ret.val) = 1
    /\ Len(search_entries(StoreState, ret.ns, None)) = 2

----------------------------------------------------------------------------
(* C7 *)

\* C7: once put(ns, k, v) has been called, list_namespaces() with a limit no
\* less than the number of known namespaces includes ns in every later state,
\* whatever was deleted since and in whatever order the set iterates.
C7_NamespacesGrow ==
    \A i \in DOMAIN hist :
        hist[i].op = "put" =>
            \A order \in Orderings(namespaces) :
                hist[i].ns \in Range(InMemoryStore_list_namespaces(
                                         order, None, None, None, 100, 0))

\* every record has been deleted and a namespace is still listed
C7_Witness ==
    /\ Len(hist) >= 2
    /\ hist[1].op = "put"
    /\ hist[Len(hist)].op = "delete"
    /\ hist[Len(hist)].ns = hist[1].ns
    /\ data = <<>>
    /\ ret.op = "list_namespaces"
    /\ hist[1].ns \in Range(ret.val)

----------------------------------------------------------------------------
(* C8 *)

\* the last Len(s) segments of ns are s
HasSuffix(ns, s) ==
    Len(s) <= Len(ns) /\ SubSeq(ns, Len(ns) - Len(s) + 1, Len(ns)) = s

\* C8: for every prefix p, suffix s and max_depth d (each optional),
\* list_namespaces with offset 0 and a large enough limit returns exactly the
\* known namespaces whose first len(p) segments are p, whose last len(s)
\* segments are s and that have at most d segments, each once.
C8_ListExact ==
    \A p \in PrefixSet, s \in SuffixSet, d \in DepthSet :
        \A order \in Orderings(namespaces) :
            LET got == InMemoryStore_list_namespaces(order, p, s, d, 100, 0)
                want == { ns \in namespaces :
                            /\ (p # None => HasPrefix(ns, p[1]))
                            /\ (s # None => HasSuffix(ns, s[1]))
                            /\ (d # None => Len(ns) <= d[1]) }
            IN  Range(got) = want /\ Len(got) = Cardinality(want)

----------------------------------------------------------------------------
(* C9 *)

\* the checkpoint of the last put on thread t in h with no delete(t) and no
\* clear_all after it, or None
RECURSIVE LatestCheckpoint(_, _)
LatestCheckpoint(h, t) ==
    IF h = <<>> THEN None
    ELSE LET c == h[Len(h)]
         IN  IF c.op = "clear_all" THEN None
             ELSE IF c.thread # t THEN LatestCheckpoint(SubSeq(h, 1, Len(h) - 1), t)
             ELSE IF c.op = "put" THEN Some(c.checkpoint)
             ELSE None

\* C9: after any sequence of put, delete and clear_all, get(t) returns the
\* checkpoint of the most recent put(t, c) when no delete(t) or clear_all came
\* after it, and None otherwise; so a put replaces the checkpoint of its
\* thread as a whole and leaves every other thread's checkpoint as it was.
C9_LatestCheckpoint ==
    \A t \in ThreadSet :
        MemorySaver_get(SaverState, t) = LatestCheckpoint(chist, t)

\* a put has replaced a different checkpoint of its thread while the other
\* thread, put before, still holds its own
C9_Witness ==
    /\ Len(chist) = 3
    /\ \A i \in 1..3 : chist[i].op = "put"
    /\ chist[1].thread = chist[3].thread
    /\ chist[2].thread # chist[1].thread
    /\ chist[1].checkpoint # chist[3].checkpoint
    /\ cret.op = "get"
    /\ cret.thread = chist[2].thread
    /\ cret.val = Some(chist[2].checkpoint)

----------------------------------------------------------------------------
(* C10 *)

\* C10: list_threads() returns exactly the thread identifiers t for which
\* get(t) is not None, each once; right after delete(t) it excludes t; right
\* after clear_all() it is empty and get returns None for every thread.
C10_ListThreads ==
    LET listed == MemorySaver_list_threads(SaverState)
    IN  /\ Range(listed) = { t \in ThreadSet : MemorySaver_get(SaverState, t) # None }
        /\ Len(listed) = Cardinality(Range(listed))
        /\ cret.op = "delete" => cret.thread \notin Range(listed)
        /\ cret.op = "clear_all" =>
               /\ listed = <<>>
               /\ \A t \in ThreadSet : MemorySaver_get(SaverState, t) = None

\* clear_all has just emptied a log that held both threads
C10_Witness ==
    /\ cret.op = "clear_all"
    /\ Len(chist) = 3
    /\ chist[1].op = "put" /\ chist[2].op = "put"
    /\ chist[1].thread # chist[2].thread
    /\ MemorySaver_list_threads(SaverState) = <<>>

----------------------------------------------------------------------------
(* C11 *)

\* the last put on thread t in h with no delete(t) and no clear_all after it
RECURSIVE LatestPut(_, _)
LatestPut(h, t) ==
    IF h = <<>> THEN None
    ELSE LET c == h[Len(h)]
         IN  IF c.op = "clear_all" THEN None
             ELSE IF c.thread # t THEN LatestPut(SubSeq(h, 1, Len(h) - 1), t)
             ELSE IF c.op = "put" THEN Some(c)
             ELSE None

\* len(str(c)) as Python prints the checkpoints of CheckpointSet:
\* "{'step': 1}" and "{'step': 2, 'done': 10}"
PythonStrLen(c) == IF c = [step |-> 1] THEN 11 ELSE 23

\* C11: after put(t, c), get_metadata(t) returns the timestamp of that call
\* (no earlier than the time it was made) and size len(str(c)); every put on t
\* replaces the metadata of t, and the timestamps of successive puts on one
\* thread never decrease.
C11_Metadata ==
    /\ \A t \in ThreadSet :
           LET p == LatestPut(chist, t)
               m == MemorySaver_get_metadata(SaverState, t)
           IN  IF p = None THEN m = None
               ELSE /\ m # None
                    /\ m[1].timestamp >= p[1].at
                    /\ m[1].timestamp <= now
                    /\ m[1].size = PythonStrLen(p[1].checkpoint)
                    /\ \A i \in DOMAIN chist :
                           (chist[i].op = "put" /\ chist[i].thread = t)
                               => chist[i].at <= m[1].timestamp
    /\ \A i, j \in DOMAIN chist :
           (i < j /\ chist[i].op = "put" /\ chist[j].op = "put")
               => chist[i].at <= chist[j].at

\* a later put has replaced the metadata of its thread: new timestamp, new size
C11_Witness ==
    /\ Len(chist) = 2
    /\ chist[1].op = "put" /\ chist[2].op = "put"
    /\ chist[1].thread = chist[2].thread
    /\ chist[1].checkpoint # chist[2].checkpoint
    /\ chist[1].at < chist[2].at
    /\ cret.op = "get_metadata"
    /\ cret.thread = chist[2].thread
    /\ cret.val = Some([timestamp |-> chist[2].at,
                        size |-> PythonStrLen(chist[2].checkpoint)])




----------------------------------------------------------------------------
(* The durable mirror *)

\* a fresh disk-backed store constructed on the path of the current one
FreshStore == DiskBackedInMemStore_init(persist_path, file)

\* the current store has a path and its last call was a put or delete that
\* returned without error
StoreWritten ==
    /\ alive
    /\ persist_path # None
    /\ ret.op \in {"put", "delete"}
    /\ ~ret.exc

\* the stores a and b answer every get, search and list_namespaces alike
\* (list_namespaces up to the order in which a set iterates)
SameStoreResults(a, b) ==
    /\ \A ns \in NsSet, k \in KeySet :
           InMemoryStore_get(a, ns, k) = InMemoryStore_get(b, ns, k)
    /\ \A prefix \in NsSet, f \in FilterSet :
           InMemoryStore_search(a, prefix, f, 10, 0)
               = InMemoryStore_search(b, prefix, f, 10, 0)
    /\ \A prefix \in PrefixSet, suffix \in SuffixSet, d \in DepthSet :
           { ns \in a.namespaces : ns_keeps(ns, prefix, suffix, d) }
               = { ns \in b.namespaces : ns_keeps(ns, prefix, suffix, d) }

\* C12: after a put or delete on a disk-backed store with a path has returned,
\* constructing a fresh store on the same path succeeds and the fresh store
\* answers every get, search and list_namespaces as the first one does.
C12_StoreRoundTrip ==
    StoreWritten =>
        /\ FreshStore.exc = "none"
        /\ SameStoreResults(StoreState, FreshStore.state)


\* a fresh disk-backed saver constructed on the path of the current one
FreshSaver == DiskBackedMemorySaver_init(saver_persist_path, saver_file)

\* the current saver has a path and its last call was a put, delete or
\* clear_all that returned without error
SaverWritten ==
    /\ saver_alive
    /\ saver_persist_path # None
    /\ cret.op \in {"put", "delete", "clear_all"}
    /\ ~cret.exc

\* the savers a and b answer every get, get_metadata and list_threads alike
SameSaverResults(a, b) ==
    /\ \A t \in ThreadSet :
           /\ MemorySaver_get(a, t) = MemorySaver_get(b, t)
           /\ MemorySaver_get_metadata(a, t) = MemorySaver_get_metadata(b, t)
    /\ MemorySaver_list_threads(a) = MemorySaver_list_threads(b)

StoreFileCurrent ==
    /\ file.kind = "object"
    /\ DictKeys(file.doc) = <<"data", "namespaces", "ttl_data">>
    /\ json_load_records(DictGet(file.doc, "data")[1]) = data
    /\ LET arr == DictGet(file.doc, "namespaces")[1].array
       IN  /\ Len(arr) = Cardinality(namespaces)
           /\ { arr[i].array : i \in DOMAIN arr } = namespaces
    /\ json_load_numbers(DictGet(file.doc, "ttl_data")[1]) = ttl_data

\* the file of the saver is a JSON object with exactly the members
\* checkpoints and metadata, holding exactly those of the state
SaverFileCurrent ==
    /\ saver_file.kind = "object"
    /\ DictKeys(saver_file.doc) = <<"checkpoints", "metadata">>
    /\ json_load_records(DictGet(saver_file.doc, "checkpoints")[1]) = checkpoints
    /\ json_load_records(DictGet(saver_file.doc, "metadata")[1]) = metadata

\* no step of an instance without a path changes the file
NoPathNoWrite ==
    /\ (alive /\ persist_path = None /\ persist_path' = None => file' = file)
    /\ (saver_alive /\ saver_persist_path = None /\ saver_persist_path' = None
            => saver_file' = saver_file)

\* C14: whenever a mutating call on a disk-backed store or saver with a path
\* has returned without error, the file is the serialization of the entire
\* state in memory (records, namespaces and expiry entries, or checkpoints and
\* metadata) and of nothing else; an instance without a path writes no file.
C14_WriteThrough ==
    /\ [](StoreWritten => StoreFileCurrent)
    /\ [](SaverWritten => SaverFileCurrent)
    /\ [][NoPathNoWrite]_vars

\* a put with an expiry and then a delete were written: the file holds the
\* namespace and neither the record nor its expiry entry
C14_Witness ==
    /\ StoreWritten
    /\ Len(hist) = 2
    /\ hist[1].op = "put" /\ hist[1].ttl # None
    /\ ret.op = "delete"
    /\ data = <<>>
    /\ namespaces # {}
    /\ StoreFileCurrent


\* a file that is missing, is not JSON, or is JSON of another shape than an
\* object
Malformed(f) == f.kind \in {"absent", "garbage", "undecodable", "array"}

\* C15: constructing a disk-backed store or saver on a path whose file is
\* missing or malformed does not raise and gives an instance with empty state.
C15_LoadFallback ==
    /\ (ret.op = "construct" /\ ret.path # None /\ Malformed(file))
           => (~ret.exc /\ alive /\ StoreState = EmptyStore)
    /\ (cret.op = "construct" /\ cret.path # None /\ Malformed(saver_file))
           => (~cret.exc /\ saver_alive /\ SaverState = EmptySaver)


\* the last call on the store was a put or delete whose write failed
StoreWriteFailed ==
    /\ alive
    /\ persist_path # None
    /\ ret.op \in {"put", "delete"}
    /\ ret.io # "ok"

\* the last call on the saver was a put, delete or clear_all whose write failed
SaverWriteFailed ==
    /\ saver_alive
    /\ saver_persist_path # None
    /\ cret.op \in {"put", "delete", "clear_all"}
    /\ cret.io # "ok"

\* what a get of the saver returns according to the calls made, the last of
\* which is chist[n]
ExpectedCheckpoint(t, n) ==
    LET c == chist[n]
    IN  CASE c.op = "put" /\ c.thread = t -> Some(c.checkpoint)
          [] c.op = "delete" /\ c.thread = t -> None
          [] c.op = "clear_all" -> None
          [] OTHER -> MemorySaver_get(SaverState, t)

\* C16: when the write of the file fails during a mutating call on a
\* disk-backed store or saver, the call raises and the state in memory has the
\* mutation all the same (a get sees it); a mutating call whose write succeeds
\* leaves the file equal to the whole state again, whatever failed before.
C16_WriteFailure ==
    /\ StoreWriteFailed =>
           /\ ret.exc
           /\ InMemoryStore_get(StoreState, ret.ns, ret.key)
                  = IF ret.op = "put" THEN Some(hist[Len(hist)].value) ELSE None
    /\ SaverWriteFailed =>
           /\ cret.exc
           /\ \A t \in ThreadSet :
                  MemorySaver_get(SaverState, t) = ExpectedCheckpoint(t, Len(chist))
    /\ (StoreWritten /\ \E i \in DOMAIN hist : hist[i].io # "ok")
           => StoreFileCurrent
    /\ (SaverWritten /\ \E i \in DOMAIN chist : chist[i].io # "ok")
           => SaverFileCurrent

\* a put whose write failed half way; the record is in memory and the file is
\* not the state
C16_Witness ==
    /\ StoreWriteFailed
    /\ ret.op = "put" /\ ret.io = "write_fails" /\ ret.exc
    /\ InMemoryStore_get(StoreState, ret.ns, ret.key) # None
    /\ ~StoreFileCurrent

\* a failed write followed by a written one
C16_WitnessRecovered ==
    /\ StoreWritten
    /\ Len(hist) = 2
    /\ hist[1].io # "ok"
    /\ StoreFileCurrent


----------------------------------------------------------------------------
(* The asynchronous methods and the handles *)

\* the saver after the synchronous calls of a log, made in the order of the log
RECURSIVE Replay(_)
Replay(log) ==
    IF log = <<>> THEN EmptySaver
    ELSE LET before == Replay(SubSeq(log, 1, Len(log) - 1))
             c == log[Len(log)]
         IN  CASE c.op = "put" ->
                      MemorySaver_put(before, c.thread, c.checkpoint, c.at)
               [] c.op = "delete" -> MemorySaver_delete(before, c.thread)
               [] c.op = "clear_all" -> MemorySaver_clear_all(before)

\* C17: whatever calls the coroutines make and however they are scheduled,
\* the saver is in the state the synchronous put / delete / clear_all calls
\* give when made in the order the bodies ran, an aget or alist_threads
\* returns what get or list_threads returns in that state, and the calls of
\* one coroutine run in the order the coroutine made them.
C17_AsyncShim ==
    /\ SaverState = Replay(chist)
    /\ cret.op = "aget" =>
           cret.val = MemorySaver_get(Replay(chist), cret.thread)
    /\ cret.op = "alist_threads" =>
           cret.val = MemorySaver_list_threads(Replay(chist))
    /\ \A i, j \in DOMAIN chist :
           (i < j /\ chist[i].by.task = chist[j].by.task)
               => chist[i].by.n < chist[j].by.n
    /\ \A c \in Coroutines, i \in DOMAIN chist :
           chist[i].by.task = c => chist[i].by.n <= tasks[c].done

\* both coroutines put on the same thread, the second one's call ran between
\* two calls of the first, and an aget then read the thread
C17_Witness ==
    /\ Len(chist) = 2
    /\ chist[1].op = "put" /\ chist[2].op = "put"
    /\ chist[1].thread = chist[2].thread
    /\ chist[1].checkpoint # chist[2].checkpoint
    /\ chist[1].by.task # chist[2].by.task
    /\ cret.op = "aget" /\ cret.thread = chist[1].thread
    /\ cret.by.task = chist[1].by.task
    /\ cret.val = Some(chist[2].checkpoint)


\* what one step does with handles
HandleStep ==
    /\ (handles' # handles \/ (cret' # cret /\ cret'.op \in {"acquire", "release"}))
           => UNCHANGED <<checkpoints, metadata>>
    /\ (chist' # chist /\ cret'.op = "save")
           => LET T == cret'.handle.thread_id
                  after == [checkpoints |-> checkpoints', metadata |-> metadata']
              IN  /\ after = MemorySaver_put(SaverState, T, cret'.checkpoint, now)
                  /\ \A u \in ThreadSet \ {T} :
                         /\ MemorySaver_get(after, u) = MemorySaver_get(SaverState, u)
                         /\ MemorySaver_get_metadata(after, u)
                                = MemorySaver_get_metadata(SaverState, u)
    /\ (cret' # cret /\ cret'.op = "load")
           => /\ cret'.val = MemorySaver_get(SaverState, cret'.handle.thread_id)
              /\ UNCHANGED <<checkpoints, metadata>>

\* C18: acquiring a handle (by CheckpointContext, by checkpoint_context, or
\* by `with saver`, which binds "default") and releasing it leave checkpoints
\* and metadata as they are; save(c) on a handle for thread T does what
\* put(T, c) does and load() returns what get(T) returns, and neither touches
\* the slot of another thread.
C18_ScopedHandle == [][HandleStep]_vars

\* a handle for threadA has saved and loaded next to a checkpoint of "default"
\* that `with saver` wrote, and the two slots differ
C18_Witness ==
    /\ cret.op = "load"
    /\ cret.handle.thread_id = "threadA"
    /\ MemorySaver_enter \in handles
    /\ Len(chist) = 2
    /\ chist[1].thread = "default" /\ chist[2].thread = "threadA"
    /\ cret.val = Some(chist[2].checkpoint)
    /\ cret.val # MemorySaver_get(SaverState, "default")
    /\ MemorySaver_get(SaverState, "default") # None


----------------------------------------------------------------------------
(* Reads *)

\* what one step that reads does
ReadStep ==
    /\ (ret' # ret /\ ret'.op \in {"get", "search", "list_namespaces"})
           => UNCHANGED <<data, namespaces, ttl_data, file>>
    /\ (cret' # cret /\ cret'.op \in {"get", "get_metadata", "list_threads"})
           => UNCHANGED <<checkpoints, metadata, saver_file>>
    /\ (ret' # ret /\ ret'.op = "get")
           => ret'.val = InMemoryStore_get(StoreState, ret'.ns, ret'.key)
    /\ (ret' # ret /\ ret'.op = "search")
           => ret'.val = InMemoryStore_search(StoreState, ret'.ns, ret'.filter,
                                              ret'.limit, ret'.offset)

\* C19: get, search and list_namespaces of a store and get, get_metadata and
\* list_threads of a saver change neither the records, the namespaces, the
\* expiry entries, the checkpoints, the metadata nor the file, whatever
\* refresh_ttl and query are; get and search return what they return without
\* those two arguments.
C19_ReadsPure == [][ReadStep]_vars

\* a get with refresh_ttl=True has read a record that has an expiry entry and
\* a file
C19_Witness ==
    /\ ret.op = "get"
    /\ ret.refresh_ttl = Some(TRUE)
    /\ ret.val # None
    /\ DictHas(ttl_data, make_key(ret.ns, ret.key))
    /\ file.kind = "object"


----------------------------------------------------------------------------
(* Expiry entries *)

\* the composite keys of the calls made
CalledKeys == { make_key(hist[i].ns, hist[i].key) : i \in DOMAIN hist }

\* the positions of hist that are calls on the composite key K
CallsOn(K) == { i \in DOMAIN hist : make_key(hist[i].ns, hist[i].key) = K }

\* the positions of the puts with a ttl on K that no delete of K follows
TtlPuts(K) ==
    { i \in CallsOn(K) :
        /\ hist[i].op = "put"
        /\ hist[i].ttl # None
        /\ \A j \in CallsOn(K) : j > i => hist[j].op # "delete" }

\* the expiry entry the calls made give the composite key K
ExpectedExpiry(K) ==
    IF TtlPuts(K) = {} THEN None
    ELSE LET i == CHOOSE i \in TtlPuts(K) : \A j \in TtlPuts(K) : j <= i
         IN  Some(hist[i].at + hist[i].ttl[1] * 60)

----------------------------------------------------------------------------
(* Expired records *)

\* the record of pair p has an expiry entry and its expiry instant is past
Expired(p) ==
    LET K == make_key(p[1], p[2])
    IN  DictHas(ttl_data, K) /\ DictGet(ttl_data, K)[1] < now

\* every record put and not deleted since is returned by get and by a search
\* under its namespace with its last value, expired or not, and a get or
\* search that was made returned accordingly
ExpiredStillReturned ==
    /\ \A p \in StoredPairs :
           /\ InMemoryStore_get(StoreState, p[1], p[2]) = Some(StoredValue(p))
           /\ StoredValue(p) \in Range(InMemoryStore_search(StoreState, p[1],
                                                            None, 10, 0))
    /\ ret.op = "get" =>
           ret.val = IF <<ret.ns, ret.key>> \in StoredPairs
                     THEN Some(StoredValue(<<ret.ns, ret.key>>)) ELSE None
    /\ ret.op = "search" =>
           \A p \in StoredPairs :
               HasPrefix(p[1], ret.ns) => StoredValue(p) \in Range(ret.val)

\* a step in which time passes leaves every record and every expiry entry
TimeStep == now' # now => UNCHANGED <<data, namespaces, ttl_data>>

\* C21: a record stored with a ttl is returned by get and search at every
\* later time, also past its expiry instant, until it is deleted or
\* overwritten; the passing of time removes no record and no expiry entry.
C21_ExpiryAdvisory == [](ExpiredStillReturned) /\ [][TimeStep]_vars

\* a get, made after the expiry instant of a record had passed, returned it
C21_Witness ==
    /\ ret.op = "get"
    /\ <<ret.ns, ret.key>> \in StoredPairs
    /\ Expired(<<ret.ns, ret.key>>)
    /\ ret.val = Some(StoredValue(<<ret.ns, ret.key>>))

----------------------------------------------------------------------------
(* Pages *)

\* positions offset .. offset + limit - 1 of seq, counted from 0, as far as
\* seq has them
PageOf(seq, offset, limit) ==
    LET rest == IF Len(seq) > offset THEN Len(seq) - offset ELSE 0
        n == IF limit < rest THEN limit ELSE rest
    IN  [i \in 1..n |-> seq[offset + i]]

\* the pages 0 .. n of size L, one after the other
RECURSIVE ConcatPages(_, _, _)
ConcatPages(Page(_, _), L, n) ==
    IF n < 0 THEN <<>>
    ELSE ConcatPages(Page, L, n - 1) \o Page(L, n * L)

\* the match sequence of a search: the records kept by the loop, in the order
\* of the dict
Matches(prefix, f) == DictValues(search_entries(StoreState, prefix, f))

\* the filtered namespace list, given the order in which the set iterates
MatchingNamespaces(order, prefix, suffix, d) ==
    SelectSeq(order, LAMBDA ns : ns_keeps(ns, prefix, suffix, d))

\* C22: search returns positions offset .. offset+limit-1 of the match
\* sequence, at most limit records and none when offset is past the end; in
\* an unchanged store the pages of size L at offsets 0, L, 2L, ... are, one
\* after the other, the match sequence. list_namespaces does the same with
\* the filtered namespace list, in the order the set iterates.
C22_Pagination ==
    /\ ret.op = "search" =>
           /\ ret.val = PageOf(Matches(ret.ns, ret.filter), ret.offset, ret.limit)
           /\ Len(ret.val) <= ret.limit
    /\ ret.op = "list_namespaces" =>
           /\ \E order \in Orderings(namespaces) :
                  ret.val = PageOf(MatchingNamespaces(order, ret.prefix,
                                                      ret.suffix, ret.max_depth),
                                   ret.offset, ret.limit)
           /\ Len(ret.val) <= ret.limit
    /\ \A f \in {None, Some([type |-> "x"])}, L \in LimitSet \ {0} :
           LET Page(l, o) == InMemoryStore_search(StoreState, <<s_a>>, f, l, o)
           IN  ConcatPages(Page, L, Len(Matches(<<s_a>>, f)) \div L)
                   = Matches(<<s_a>>, f)
    /\ \A order \in Orderings(namespaces), s \in {None, Some(<<s_b>>)},
          L \in LimitSet \ {0} :
           LET Page(l, o) == InMemoryStore_list_namespaces(order, None, s, None,
                                                           l, o)
               all == MatchingNamespaces(order, None, s, None)
           IN  ConcatPages(Page, L, Len(all) \div L) = all

\* the second page of size 1 of a search with three matches: the middle one
C22_Witness ==
    /\ ret.op = "search"
    /\ ret.filter = None /\ ret.limit = 1 /\ ret.offset = 1
    /\ Len(Matches(ret.ns, None)) = 3
    /\ ret.val = << Matches(ret.ns, None)[2] >>

----------------------------------------------------------------------------
(* Two instances on one path *)

\* the records the store's file holds
FileRecords == json_load_records(DictGet(file.doc, "data")[1])

\* the checkpoints the saver's file holds
FileCheckpoints == json_load_records(DictGet(saver_file.doc, "checkpoints")[1])

\* the store's file holds exactly the state st
StoreFileIs(st) ==
    /\ file.kind = "object"
    /\ DictKeys(file.doc) = <<"data", "namespaces", "ttl_data">>
    /\ FileRecords = st.data
    /\ LET arr == DictGet(file.doc, "namespaces")[1].array
       IN  /\ Len(arr) = Cardinality(st.namespaces)
           /\ { arr[i].array : i \in DOMAIN arr } = st.namespaces
    /\ json_load_numbers(DictGet(file.doc, "ttl_data")[1]) = st.ttl_data

\* the saver's file holds exactly the state sv
SaverFileIs(sv) ==
    /\ saver_file.kind = "object"
    /\ DictKeys(saver_file.doc) = <<"checkpoints", "metadata">>
    /\ FileCheckpoints = sv.checkpoints
    /\ json_load_records(DictGet(saver_file.doc, "metadata")[1]) = sv.metadata

\* the last call was a mutating call of the first / of the second instance
\* that wrote the file
FirstStoreWrote == persist_path # None /\ ret.op \in {"put", "delete"} /\ ~ret.exc
SecondStoreWrote == ret.op \in {"peer_put", "peer_delete"} /\ ~ret.exc
FirstSaverWrote ==
    /\ saver_persist_path # None
    /\ cret.op \in {"put", "delete", "clear_all"}
    /\ ~cret.exc
SecondSaverWrote ==
    cret.op \in {"peer_put", "peer_delete", "peer_clear_all"} /\ ~cret.exc

\* C23: with two disk-backed instances on one path, after each write the file
\* is the whole state of the instance that wrote, and holds nothing of the
\* other instance: a record or checkpoint that only the other one has is not
\* in the file.
C23_LastWriterWins ==
    /\ FirstStoreWrote => StoreFileIs(StoreState)
    /\ SecondStoreWrote =>
           /\ StoreFileIs(peer_store[1])
           /\ \A k \in Range(DictKeys(data)) :
                  ~DictHas(peer_store[1].data, k) => ~DictHas(FileRecords, k)
    /\ FirstSaverWrote =>
           /\ SaverFileIs(SaverState)
           /\ peer_saver # None =>
                  \A t \in Range(DictKeys(peer_saver[1].checkpoints)) :
                      ~DictHas(checkpoints, t) => ~DictHas(FileCheckpoints, t)
    /\ SecondSaverWrote =>
           /\ SaverFileIs(peer_saver[1])
           /\ \A t \in Range(DictKeys(checkpoints)) :
                  ~DictHas(peer_saver[1].checkpoints, t)
                      => ~DictHas(FileCheckpoints, t)

\* a lost update: the first saver put a checkpoint for a thread after the
\* second saver was constructed, the second saver then put one for another
\* thread, and the file has only the second
C23_Witness ==
    /\ SecondSaverWrote
    /\ cret.op = "peer_put"
    /\ Len(chist) = 1
    /\ chist[1].op = "put"
    /\ DictHas(checkpoints, chist[1].thread)
    /\ ~DictHas(peer_saver[1].checkpoints, chist[1].thread)
    /\ ~DictHas(FileCheckpoints, chist[1].thread)
    /\ DictHas(FileCheckpoints, cret.thread)

\* the same with two stores
C23_WitnessStore ==
    /\ SecondStoreWrote
    /\ ret.op = "peer_put"
    /\ \E k \in Range(DictKeys(data)) :
           ~DictHas(peer_store[1].data, k) /\ ~DictHas(FileRecords, k)

----------------------------------------------------------------------------
(* Checkpoints and their metadata *)

\* C24: in every state a saver that started empty reaches by put, delete and
\* clear_all, the threads that have metadata are the threads that have a
\* checkpoint: get_metadata(t) is not-found exactly when get(t) is.
C24_MetadataWithCheckpoint ==
    /\ Range(DictKeys(metadata)) = Range(DictKeys(checkpoints))
    /\ \A t \in ThreadSet :
           (MemorySaver_get_metadata(SaverState, t) = None)
               <=> (MemorySaver_get(SaverState, t) = None)

\* one thread was put and deleted, another was put and is there
C24_Witness ==
    /\ Len(chist) = 3
    /\ chist[1].op = "put"
    /\ chist[2].op = "delete" /\ chist[2].thread = chist[1].thread
    /\ chist[3].op = "put" /\ chist[3].thread # chist[1].thread
    /\ MemorySaver_get_metadata(SaverState, chist[1].thread) = None
    /\ MemorySaver_get_metadata(SaverState, chist[3].thread) # None

----------------------------------------------------------------------------
(* Search with the empty prefix *)

\* C25: search((), filter=F) with offset 0 and a limit above the number of
\* records returns every stored record that F matches, whatever its namespace.
C25_EmptyPrefixSearch ==
    (ret.op = "search" /\ ret.ns = <<>> /\ ret.offset = 0)
        => \A p \in StoredPairs :
               FilterHolds(StoredValue(p), ret.filter)
                   => StoredValue(p) \in Range(ret.val)

----------------------------------------------------------------------------
(* The string test of search on names without the delimiter *)

\* the str s is not empty and has no ':'
CleanSegment(s) == s # <<>> /\ \A i \in DOMAIN s : s[i] # ":"

\* no segment of ns is empty or has ':'
CleanNamespace(ns) == \A i \in DOMAIN ns : CleanSegment(ns[i])

\* every call made so far names a clean namespace and a key without ':'
CleanHistory ==
    \A i \in DOMAIN hist :
        /\ CleanNamespace(hist[i].ns)
        /\ \A j \in DOMAIN hist[i].key : hist[i].key[j] # ":"

\* the pairs (ns, k) put and not deleted since
CleanStoredPairs ==
    { p \in CleanNsSet \X CleanKeySet :
        LET c == LastCallOn(hist, p[1], p[2])
        IN  c # None /\ c[1].op = "put" }

\* C26: when no segment is empty, no segment and no key has ':' and the
\* prefix has a segment, search selects exactly the records whose namespace
\* starts, segment by segment, with the prefix: none under a shorter
\* namespace, none under a namespace whose segment only begins like a segment
\* of the prefix.
C26_PrefixBySegments ==
    \A P \in CleanPrefixSet, v \in ValueSet :
        (CleanHistory /\ CleanNamespace(P) /\ Len(P) >= 1)
            => Count(InMemoryStore_search(StoreState, P, None, 10, 0),
                     LAMBDA x : x = v)
                   = Cardinality({ p \in CleanStoredPairs :
                                      HasPrefix(p[1], P) /\ StoredValue(p) = v })

\* a search of prefix ("a",) over a record under ("ab",) and one under
\* ("a", "b") returned the second only
C26_Witness ==
    /\ ret.op = "search" /\ ret.ns = <<s_a>>
    /\ CleanStoredPairs = { << <<s_ab>>, s_k >>, << <<s_a, s_b>>, s_k >> }
    /\ StoredValue(<< <<s_ab>>, s_k >>) # StoredValue(<< <<s_a, s_b>>, s_k >>)
    /\ ret.val = << StoredValue(<< <<s_a, s_b>>, s_k >>) >>

\* a search of prefix ("a", "b") over a record under ("a",) with key "b"
\* returned nothing
C26_WitnessShorter ==
    /\ ret.op = "search" /\ ret.ns = <<s_a, s_b>>
    /\ CleanStoredPairs = { << <<s_a>>, s_b >> }
    /\ ret.val = <<>>

====
